---- MODULE Spec2Model ----
(***************************************************************************)
(* The job-board server: the route handlers of the Express application     *)
(* over the two MongoDB collections "jobs" and "applications".             *)
(*                                                                         *)
(* A handler is cut at its awaits: every store operation is one atomic     *)
(* step, the synchronous code before it belongs to the same step, and the  *)
(* response is emitted with the handler's last step.  Handlers with two    *)
(* store operations (submit application, seed) occupy a slot between the   *)
(* two, so other requests interleave there.                                *)
(***************************************************************************)
EXTENDS Integers, Sequences, FiniteSets, TLC

\* ------------------------------------------------------------------ bounds
\* Number of jobs create-job may insert.
MaxCreates == 1
\* Number of insertMany calls of the seed handler.
MaxSeeds == 2
\* Number of two-step requests (seed, submit application) in flight at once.
NumSlots == 2
\* Number of applications that may be inserted.
MaxApps == 1
\* Latest hour at which the jobs of the query specification are created.
MaxTime == 1

\* ------------------------------------------------------------- JSON values
\* A JSON / JavaScript value is a tuple of strings: its type, then its
\* spelling (string, number, boolean) or its elements (array of strings).
JUndef == <<"undefined">>
JNull == <<"null">>
JStr(s) == <<"string", s>>
JNum(s) == <<"number", s>>
JBool(b) == <<"boolean", IF b THEN "true" ELSE "false">>
JArr(xs) == <<"array">> \o xs

TypeOf(j) == j[1]
StrVal(j) == j[2]
Elems(j) == Tail(j)

\* JavaScript truthiness, as used by `x || d`, `!x` and `if (x)`.
Truthy(j) ==
  CASE TypeOf(j) = "string" -> StrVal(j) # ""
    [] TypeOf(j) = "number" -> StrVal(j) \notin {"0", "NaN"}
    [] TypeOf(j) = "boolean" -> StrVal(j) = "true"
    [] TypeOf(j) = "array" -> TRUE
    [] OTHER -> FALSE

\* `x || d`
OrElse(x, d) == IF Truthy(x) THEN x ELSE d

\* ------------------------------------------------------------------ strings
\* The spelling of the strings that requests carry.
InputChars ==
  "" :> <<>>
  @@ " " :> <<" ">>
  @@ " Dev " :> <<" ","D","e","v"," ">>
  @@ "Dev" :> <<"D","e","v">>
  @@ "Acme" :> <<"A","c","m","e">>
  @@ "Remote" :> <<"R","e","m","o","t","e">>
  @@ "Design" :> <<"D","e","s","i","g","n">>
  @@ "Builds" :> <<"B","u","i","l","d","s">>
  @@ "Ann" :> <<"A","n","n">>
  @@ "Hi" :> <<"H","i">>
  @@ "A@b.co" :> <<"A","@","b",".","c","o">>
  @@ "a@b.co" :> <<"a","@","b",".","c","o">>
  @@ " a@b.co" :> <<" ","a","@","b",".","c","o">>
  @@ "a@b" :> <<"a","@","b">>
  @@ "not-an-email" :> <<"n","o","t","-","a","n","-","e","m","a","i","l">>
  @@ "http://cv.io" :> <<"h","t","t","p",":","/","/","c","v",".","i","o">>
  @@ "cv" :> <<"c","v">>
  @@ "true" :> <<"t","r","u","e">>
  @@ "false" :> <<"f","a","l","s","e">>
  @@ "1" :> <<"1">>
  @@ "des" :> <<"d","e","s">>
  @@ "DEV" :> <<"D","E","V">>
  @@ "acme" :> <<"a","c","m","e">>
  @@ "spain" :> <<"s","p","a","i","n">>
  @@ "mark" :> <<"m","a","r","k">>
  @@ "zzz" :> <<"z","z","z">>
  @@ "0" :> <<"0">>
  @@ "2" :> <<"2">>
  @@ "-1" :> <<"-","1">>
  @@ "-3" :> <<"-","3">>
  @@ "17" :> <<"1","7">>
  @@ "2x" :> <<"2","x">>
  @@ " 2x" :> <<" ","2","x">>
  @@ "abc" :> <<"a","b","c">>
  @@ "newest" :> <<"n","e","w","e","s","t">>

\* The spelling of every string literal of the seed handler (lines 266-464).
SampleChars ==
  "Email Marketing" :> <<"E","m","a","i","l"," ","M","a","r","k","e","t","i","n","g">>
  @@ "Revolut" :> <<"R","e","v","o","l","u","t">>
  @@ "Madrid, Spain" :> <<"M","a","d","r","i","d",","," ","S","p","a","i","n">>
  @@ "Revolut is looking for an Email Marketing specialist to help teams build and optimise email campaigns that drive customer engagement and retention across Europe." :> <<"R","e","v","o","l","u","t"," ","i","s"," ","l","o","o","k","i","n","g"," ","f","o","r"," ","a","n"," ","E","m","a","i","l"," ","M","a","r","k","e","t","i","n","g"," ","s","p","e","c","i","a","l","i","s","t"," ","t","o"," ","h","e","l","p"," ","t","e","a","m","s"," ","b","u","i","l","d"," ","a","n","d"," ","o","p","t","i","m","i","s","e"," ","e","m","a","i","l"," ","c","a","m","p","a","i","g","n","s"," ","t","h","a","t"," ","d","r","i","v","e"," ","c","u","s","t","o","m","e","r"," ","e","n","g","a","g","e","m","e","n","t"," ","a","n","d"," ","r","e","t","e","n","t","i","o","n"," ","a","c","r","o","s","s"," ","E","u","r","o","p","e",".">>
  @@ "Full Time" :> <<"F","u","l","l"," ","T","i","m","e">>
  @@ "Marketing" :> <<"M","a","r","k","e","t","i","n","g">>
  @@ "Brand Designer" :> <<"B","r","a","n","d"," ","D","e","s","i","g","n","e","r">>
  @@ "Dropbox" :> <<"D","r","o","p","b","o","x">>
  @@ "San Francisco, US" :> <<"S","a","n"," ","F","r","a","n","c","i","s","c","o",","," ","U","S">>
  @@ "Dropbox is looking for a Brand Designer to help the team create beautiful and consistent design systems across all brand touchpoints." :> <<"D","r","o","p","b","o","x"," ","i","s"," ","l","o","o","k","i","n","g"," ","f","o","r"," ","a"," ","B","r","a","n","d"," ","D","e","s","i","g","n","e","r"," ","t","o"," ","h","e","l","p"," ","t","h","e"," ","t","e","a","m"," ","c","r","e","a","t","e"," ","b","e","a","u","t","i","f","u","l"," ","a","n","d"," ","c","o","n","s","i","s","t","e","n","t"," ","d","e","s","i","g","n"," ","s","y","s","t","e","m","s"," ","a","c","r","o","s","s"," ","a","l","l"," ","b","r","a","n","d"," ","t","o","u","c","h","p","o","i","n","t","s",".">>
  @@ "Design" :> <<"D","e","s","i","g","n">>
  @@ "Business" :> <<"B","u","s","i","n","e","s","s">>
  @@ "Pitch" :> <<"P","i","t","c","h">>
  @@ "Berlin, Germany" :> <<"B","e","r","l","i","n",","," ","G","e","r","m","a","n","y">>
  @@ "Pitch is looking for a Customer Manager to join the marketing team and drive impactful campaigns across digital channels." :> <<"P","i","t","c","h"," ","i","s"," ","l","o","o","k","i","n","g"," ","f","o","r"," ","a"," ","C","u","s","t","o","m","e","r"," ","M","a","n","a","g","e","r"," ","t","o"," ","j","o","i","n"," ","t","h","e"," ","m","a","r","k","e","t","i","n","g"," ","t","e","a","m"," ","a","n","d"," ","d","r","i","v","e"," ","i","m","p","a","c","t","f","u","l"," ","c","a","m","p","a","i","g","n","s"," ","a","c","r","o","s","s"," ","d","i","g","i","t","a","l"," ","c","h","a","n","n","e","l","s",".">>
  @@ "Visual Designer" :> <<"V","i","s","u","a","l"," ","D","e","s","i","g","n","e","r">>
  @@ "Blendd" :> <<"B","l","e","n","d","d">>
  @@ "Granada, Spain" :> <<"G","r","a","n","a","d","a",","," ","S","p","a","i","n">>
  @@ "Blendd is looking for a Visual Designer to help teams design stunning brand identities and digital experiences." :> <<"B","l","e","n","d","d"," ","i","s"," ","l","o","o","k","i","n","g"," ","f","o","r"," ","a"," ","V","i","s","u","a","l"," ","D","e","s","i","g","n","e","r"," ","t","o"," ","h","e","l","p"," ","t","e","a","m","s"," ","d","e","s","i","g","n"," ","s","t","u","n","n","i","n","g"," ","b","r","a","n","d"," ","i","d","e","n","t","i","t","i","e","s"," ","a","n","d"," ","d","i","g","i","t","a","l"," ","e","x","p","e","r","i","e","n","c","e","s",".">>
  @@ "Product Designer" :> <<"P","r","o","d","u","c","t"," ","D","e","s","i","g","n","e","r">>
  @@ "Cloudpass" :> <<"C","l","o","u","d","p","a","s","s">>
  @@ "Manchester, UK" :> <<"M","a","n","c","h","e","s","t","e","r",","," ","U","K">>
  @@ "Cloudpass is looking for a Product Designer to help build the next generation of cloud security tools with intuitive, user-first design." :> <<"C","l","o","u","d","p","a","s","s"," ","i","s"," ","l","o","o","k","i","n","g"," ","f","o","r"," ","a"," ","P","r","o","d","u","c","t"," ","D","e","s","i","g","n","e","r"," ","t","o"," ","h","e","l","p"," ","b","u","i","l","d"," ","t","h","e"," ","n","e","x","t"," ","g","e","n","e","r","a","t","i","o","n"," ","o","f"," ","c","l","o","u","d"," ","s","e","c","u","r","i","t","y"," ","t","o","o","l","s"," ","w","i","t","h"," ","i","n","t","u","i","t","i","v","e",","," ","u","s","e","r","-","f","i","r","s","t"," ","d","e","s","i","g","n",".">>
  @@ "Lead Designer" :> <<"L","e","a","d"," ","D","e","s","i","g","n","e","r">>
  @@ "Canva" :> <<"C","a","n","v","a">>
  @@ "Ontario, Canada" :> <<"O","n","t","a","r","i","o",","," ","C","a","n","a","d","a">>
  @@ "Canva is looking for a Lead Designer to develop and ship new design features across our creative platform used by millions worldwide." :> <<"C","a","n","v","a"," ","i","s"," ","l","o","o","k","i","n","g"," ","f","o","r"," ","a"," ","L","e","a","d"," ","D","e","s","i","g","n","e","r"," ","t","o"," ","d","e","v","e","l","o","p"," ","a","n","d"," ","s","h","i","p"," ","n","e","w"," ","d","e","s","i","g","n"," ","f","e","a","t","u","r","e","s"," ","a","c","r","o","s","s"," ","o","u","r"," ","c","r","e","a","t","i","v","e"," ","p","l","a","t","f","o","r","m"," ","u","s","e","d"," ","b","y"," ","m","i","l","l","i","o","n","s"," ","w","o","r","l","d","w","i","d","e",".">>
  @@ "Brand Strategist" :> <<"B","r","a","n","d"," ","S","t","r","a","t","e","g","i","s","t">>
  @@ "GoDaddy" :> <<"G","o","D","a","d","d","y">>
  @@ "Marseille, France" :> <<"M","a","r","s","e","i","l","l","e",","," ","F","r","a","n","c","e">>
  @@ "GoDaddy is looking for a Brand Strategist to join the team and shape the voice, positioning, and identity of our global brand." :> <<"G","o","D","a","d","d","y"," ","i","s"," ","l","o","o","k","i","n","g"," ","f","o","r"," ","a"," ","B","r","a","n","d"," ","S","t","r","a","t","e","g","i","s","t"," ","t","o"," ","j","o","i","n"," ","t","h","e"," ","t","e","a","m"," ","a","n","d"," ","s","h","a","p","e"," ","t","h","e"," ","v","o","i","c","e",","," ","p","o","s","i","t","i","o","n","i","n","g",","," ","a","n","d"," ","i","d","e","n","t","i","t","y"," ","o","f"," ","o","u","r"," ","g","l","o","b","a","l"," ","b","r","a","n","d",".">>
  @@ "Data Analyst" :> <<"D","a","t","a"," ","A","n","a","l","y","s","t">>
  @@ "Twitter" :> <<"T","w","i","t","t","e","r">>
  @@ "San Diego, US" :> <<"S","a","n"," ","D","i","e","g","o",","," ","U","S">>
  @@ "Twitter is looking for a Data Analyst to help teams derive actionable insights from complex datasets and shape product decisions." :> <<"T","w","i","t","t","e","r"," ","i","s"," ","l","o","o","k","i","n","g"," ","f","o","r"," ","a"," ","D","a","t","a"," ","A","n","a","l","y","s","t"," ","t","o"," ","h","e","l","p"," ","t","e","a","m","s"," ","d","e","r","i","v","e"," ","a","c","t","i","o","n","a","b","l","e"," ","i","n","s","i","g","h","t","s"," ","f","r","o","m"," ","c","o","m","p","l","e","x"," ","d","a","t","a","s","e","t","s"," ","a","n","d"," ","s","h","a","p","e"," ","p","r","o","d","u","c","t"," ","d","e","c","i","s","i","o","n","s",".">>
  @@ "Technology" :> <<"T","e","c","h","n","o","l","o","g","y">>
  @@ "Social Media Assistant" :> <<"S","o","c","i","a","l"," ","M","e","d","i","a"," ","A","s","s","i","s","t","a","n","t">>
  @@ "Nomad" :> <<"N","o","m","a","d">>
  @@ "Paris, France" :> <<"P","a","r","i","s",","," ","F","r","a","n","c","e">>
  @@ "Nomad is looking for a Social Media Assistant to manage and grow our online presence across Instagram, LinkedIn, and Twitter." :> <<"N","o","m","a","d"," ","i","s"," ","l","o","o","k","i","n","g"," ","f","o","r"," ","a"," ","S","o","c","i","a","l"," ","M","e","d","i","a"," ","A","s","s","i","s","t","a","n","t"," ","t","o"," ","m","a","n","a","g","e"," ","a","n","d"," ","g","r","o","w"," ","o","u","r"," ","o","n","l","i","n","e"," ","p","r","e","s","e","n","c","e"," ","a","c","r","o","s","s"," ","I","n","s","t","a","g","r","a","m",","," ","L","i","n","k","e","d","I","n",","," ","a","n","d"," ","T","w","i","t","t","e","r",".">>
  @@ "Netlify" :> <<"N","e","t","l","i","f","y">>
  @@ "Netlify is looking for a Social Media Assistant to grow brand awareness and manage community engagement across all platforms." :> <<"N","e","t","l","i","f","y"," ","i","s"," ","l","o","o","k","i","n","g"," ","f","o","r"," ","a"," ","S","o","c","i","a","l"," ","M","e","d","i","a"," ","A","s","s","i","s","t","a","n","t"," ","t","o"," ","g","r","o","w"," ","b","r","a","n","d"," ","a","w","a","r","e","n","e","s","s"," ","a","n","d"," ","m","a","n","a","g","e"," ","c","o","m","m","u","n","i","t","y"," ","e","n","g","a","g","e","m","e","n","t"," ","a","c","r","o","s","s"," ","a","l","l"," ","p","l","a","t","f","o","r","m","s",".">>
  @@ "San Fransisco, USA" :> <<"S","a","n"," ","F","r","a","n","s","i","s","c","o",","," ","U","S","A">>
  @@ "Dropbox is looking for a Brand Designer to craft compelling visual assets across all brand channels and campaigns." :> <<"D","r","o","p","b","o","x"," ","i","s"," ","l","o","o","k","i","n","g"," ","f","o","r"," ","a"," ","B","r","a","n","d"," ","D","e","s","i","g","n","e","r"," ","t","o"," ","c","r","a","f","t"," ","c","o","m","p","e","l","l","i","n","g"," ","v","i","s","u","a","l"," ","a","s","s","e","t","s"," ","a","c","r","o","s","s"," ","a","l","l"," ","b","r","a","n","d"," ","c","h","a","n","n","e","l","s"," ","a","n","d"," ","c","a","m","p","a","i","g","n","s",".">>
  @@ "Maze" :> <<"M","a","z","e">>
  @@ "Maze is looking for a Brand Designer to create stunning visual systems for our product and marketing materials." :> <<"M","a","z","e"," ","i","s"," ","l","o","o","k","i","n","g"," ","f","o","r"," ","a"," ","B","r","a","n","d"," ","D","e","s","i","g","n","e","r"," ","t","o"," ","c","r","e","a","t","e"," ","s","t","u","n","n","i","n","g"," ","v","i","s","u","a","l"," ","s","y","s","t","e","m","s"," ","f","o","r"," ","o","u","r"," ","p","r","o","d","u","c","t"," ","a","n","d"," ","m","a","r","k","e","t","i","n","g"," ","m","a","t","e","r","i","a","l","s",".">>
  @@ "Interactive Developer" :> <<"I","n","t","e","r","a","c","t","i","v","e"," ","D","e","v","e","l","o","p","e","r">>
  @@ "Terraform" :> <<"T","e","r","r","a","f","o","r","m">>
  @@ "Hamburg, Germany" :> <<"H","a","m","b","u","r","g",","," ","G","e","r","m","a","n","y">>
  @@ "Terraform is looking for an Interactive Developer to build immersive, high-performance web experiences for our platform." :> <<"T","e","r","r","a","f","o","r","m"," ","i","s"," ","l","o","o","k","i","n","g"," ","f","o","r"," ","a","n"," ","I","n","t","e","r","a","c","t","i","v","e"," ","D","e","v","e","l","o","p","e","r"," ","t","o"," ","b","u","i","l","d"," ","i","m","m","e","r","s","i","v","e",","," ","h","i","g","h","-","p","e","r","f","o","r","m","a","n","c","e"," ","w","e","b"," ","e","x","p","e","r","i","e","n","c","e","s"," ","f","o","r"," ","o","u","r"," ","p","l","a","t","f","o","r","m",".">>
  @@ "Udacity" :> <<"U","d","a","c","i","t","y">>
  @@ "Udacity is looking for an Interactive Developer to build next-gen interactive learning experiences for our global student base." :> <<"U","d","a","c","i","t","y"," ","i","s"," ","l","o","o","k","i","n","g"," ","f","o","r"," ","a","n"," ","I","n","t","e","r","a","c","t","i","v","e"," ","D","e","v","e","l","o","p","e","r"," ","t","o"," ","b","u","i","l","d"," ","n","e","x","t","-","g","e","n"," ","i","n","t","e","r","a","c","t","i","v","e"," ","l","e","a","r","n","i","n","g"," ","e","x","p","e","r","i","e","n","c","e","s"," ","f","o","r"," ","o","u","r"," ","g","l","o","b","a","l"," ","s","t","u","d","e","n","t"," ","b","a","s","e",".">>
  @@ "HR Manager" :> <<"H","R"," ","M","a","n","a","g","e","r">>
  @@ "Packer" :> <<"P","a","c","k","e","r">>
  @@ "Lucern, Switzerland" :> <<"L","u","c","e","r","n",","," ","S","w","i","t","z","e","r","l","a","n","d">>
  @@ "Packer is looking for an HR Manager to lead recruitment, onboarding, and employee engagement initiatives across the organisation." :> <<"P","a","c","k","e","r"," ","i","s"," ","l","o","o","k","i","n","g"," ","f","o","r"," ","a","n"," ","H","R"," ","M","a","n","a","g","e","r"," ","t","o"," ","l","e","a","d"," ","r","e","c","r","u","i","t","m","e","n","t",","," ","o","n","b","o","a","r","d","i","n","g",","," ","a","n","d"," ","e","m","p","l","o","y","e","e"," ","e","n","g","a","g","e","m","e","n","t"," ","i","n","i","t","i","a","t","i","v","e","s"," ","a","c","r","o","s","s"," ","t","h","e"," ","o","r","g","a","n","i","s","a","t","i","o","n",".">>
  @@ "Management" :> <<"M","a","n","a","g","e","m","e","n","t">>
  @@ "Webflow" :> <<"W","e","b","f","l","o","w">>
  @@ "Webflow is looking for an HR Manager to scale our people operations and build a world-class team globally." :> <<"W","e","b","f","l","o","w"," ","i","s"," ","l","o","o","k","i","n","g"," ","f","o","r"," ","a","n"," ","H","R"," ","M","a","n","a","g","e","r"," ","t","o"," ","s","c","a","l","e"," ","o","u","r"," ","p","e","o","p","l","e"," ","o","p","e","r","a","t","i","o","n","s"," ","a","n","d"," ","b","u","i","l","d"," ","a"," ","w","o","r","l","d","-","c","l","a","s","s"," ","t","e","a","m"," ","g","l","o","b","a","l","l","y",".">>
  @@ "https://logo.clearbit.com/revolut.com" :> <<"h","t","t","p","s",":","/","/","l","o","g","o",".","c","l","e","a","r","b","i","t",".","c","o","m","/","r","e","v","o","l","u","t",".","c","o","m">>
  @@ "https://logo.clearbit.com/dropbox.com" :> <<"h","t","t","p","s",":","/","/","l","o","g","o",".","c","l","e","a","r","b","i","t",".","c","o","m","/","d","r","o","p","b","o","x",".","c","o","m">>
  @@ "https://logo.clearbit.com/pitch.com" :> <<"h","t","t","p","s",":","/","/","l","o","g","o",".","c","l","e","a","r","b","i","t",".","c","o","m","/","p","i","t","c","h",".","c","o","m">>
  @@ "https://logo.clearbit.com/canva.com" :> <<"h","t","t","p","s",":","/","/","l","o","g","o",".","c","l","e","a","r","b","i","t",".","c","o","m","/","c","a","n","v","a",".","c","o","m">>
  @@ "https://logo.clearbit.com/godaddy.com" :> <<"h","t","t","p","s",":","/","/","l","o","g","o",".","c","l","e","a","r","b","i","t",".","c","o","m","/","g","o","d","a","d","d","y",".","c","o","m">>
  @@ "https://logo.clearbit.com/twitter.com" :> <<"h","t","t","p","s",":","/","/","l","o","g","o",".","c","l","e","a","r","b","i","t",".","c","o","m","/","t","w","i","t","t","e","r",".","c","o","m">>
  @@ "https://logo.clearbit.com/nomad.com" :> <<"h","t","t","p","s",":","/","/","l","o","g","o",".","c","l","e","a","r","b","i","t",".","c","o","m","/","n","o","m","a","d",".","c","o","m">>
  @@ "https://logo.clearbit.com/netlify.com" :> <<"h","t","t","p","s",":","/","/","l","o","g","o",".","c","l","e","a","r","b","i","t",".","c","o","m","/","n","e","t","l","i","f","y",".","c","o","m">>
  @@ "https://logo.clearbit.com/terraform.io" :> <<"h","t","t","p","s",":","/","/","l","o","g","o",".","c","l","e","a","r","b","i","t",".","c","o","m","/","t","e","r","r","a","f","o","r","m",".","i","o">>
  @@ "https://logo.clearbit.com/hashicorp.com" :> <<"h","t","t","p","s",":","/","/","l","o","g","o",".","c","l","e","a","r","b","i","t",".","c","o","m","/","h","a","s","h","i","c","o","r","p",".","c","o","m">>
  @@ "https://logo.clearbit.com/maze.co" :> <<"h","t","t","p","s",":","/","/","l","o","g","o",".","c","l","e","a","r","b","i","t",".","c","o","m","/","m","a","z","e",".","c","o">>
  @@ "https://logo.clearbit.com/udacity.com" :> <<"h","t","t","p","s",":","/","/","l","o","g","o",".","c","l","e","a","r","b","i","t",".","c","o","m","/","u","d","a","c","i","t","y",".","c","o","m">>
  @@ "https://logo.clearbit.com/webflow.com" :> <<"h","t","t","p","s",":","/","/","l","o","g","o",".","c","l","e","a","r","b","i","t",".","c","o","m","/","w","e","b","f","l","o","w",".","c","o","m">>
\* The spelling of every string of the model.
Chars == InputChars @@ SampleChars

Upper == <<"A","B","C","D","E","F","G","H","I","J","K","L","M","N","O","P","Q","R","S","T","U","V","W","X","Y","Z">>
Lower == <<"a","b","c","d","e","f","g","h","i","j","k","l","m","n","o","p","q","r","s","t","u","v","w","x","y","z">>

\* One character, lower-cased.
LowerChar(c) ==
  IF \E i \in 1..26 : Upper[i] = c THEN Lower[CHOOSE i \in 1..26 : Upper[i] = c] ELSE c

\* The lower-cased spelling of every string, as the case-insensitive regex and
\* toLowerCase see it.
LowerChars ==
  <<>> @@ [s \in DOMAIN Chars |-> <<>> @@ [i \in 1..Len(Chars[s]) |-> LowerChar(Chars[s][i])]]

\* The string spelled cs.
StrOf(cs) == CHOOSE s \in DOMAIN Chars : Chars[s] = cs

IsSpace(c) == c = " "

\* The spelling cs without its leading and trailing white space.
TrimChars(cs) ==
  LET keep == {i \in 1..Len(cs) : ~IsSpace(cs[i])}
      lo == CHOOSE i \in keep : \A k \in keep : i <= k
      hi == CHOOSE i \in keep : \A k \in keep : i >= k
  IN IF keep = {} THEN <<>> ELSE SubSeq(cs, lo, hi)

\* String.prototype.trim, tabulated over the strings of the model.
Trimmed == <<>> @@ [s \in DOMAIN Chars |-> StrOf(TrimChars(Chars[s]))]

trim(s) == Trimmed[s]

\* String.prototype.toLowerCase
toLowerCase(s) == StrOf(LowerChars[s])

\* `x?.trim` is called on a value that is neither nullish nor a string: TypeError.
TrimThrows(x) == TypeOf(x) \notin {"undefined", "null", "string"}

\* `!x?.trim()` for a value on which it does not throw.
BlankAfterTrim(x) == TypeOf(x) \in {"undefined", "null"} \/ trim(StrVal(x)) = ""

\* The logo table of the seed handler (null where the source has null).
logos ==
  "revolut" :> JStr("https://logo.clearbit.com/revolut.com")
  @@ "dropbox" :> JStr("https://logo.clearbit.com/dropbox.com")
  @@ "pitch" :> JStr("https://logo.clearbit.com/pitch.com")
  @@ "blendd" :> JNull
  @@ "cloudpass" :> JNull
  @@ "canva" :> JStr("https://logo.clearbit.com/canva.com")
  @@ "godaddy" :> JStr("https://logo.clearbit.com/godaddy.com")
  @@ "twitter" :> JStr("https://logo.clearbit.com/twitter.com")
  @@ "nomad" :> JStr("https://logo.clearbit.com/nomad.com")
  @@ "netlify" :> JStr("https://logo.clearbit.com/netlify.com")
  @@ "terraform" :> JStr("https://logo.clearbit.com/terraform.io")
  @@ "packer" :> JStr("https://logo.clearbit.com/hashicorp.com")
  @@ "maze" :> JStr("https://logo.clearbit.com/maze.co")
  @@ "udacity" :> JStr("https://logo.clearbit.com/udacity.com")
  @@ "webflow" :> JStr("https://logo.clearbit.com/webflow.com")

\* One record of the sample set; sample records carry categories and no category.
\* created_at is the time the handler built the array minus age hours.
SampleDoc(title, company, location, categories, description, featured, logo, age, t) ==
  [title |-> JStr(title), company |-> JStr(company), location |-> JStr(location),
   category |-> JUndef, categories |-> JArr(categories), type |-> JStr("Full Time"),
   description |-> JStr(description), featured |-> JBool(featured), logo |-> logo,
   created_at |-> t - age]

\* The fixed sample set of the seed handler, built at time t.
sampleJobs(t) == <<
  SampleDoc("Email Marketing", "Revolut", "Madrid, Spain",
    <<"Marketing">>,
    "Revolut is looking for an Email Marketing specialist to help teams build and optimise email campaigns that drive customer engagement and retention across Europe.",
    TRUE, logos["revolut"], 0, t),
  SampleDoc("Brand Designer", "Dropbox", "San Francisco, US",
    <<"Design", "Business">>,
    "Dropbox is looking for a Brand Designer to help the team create beautiful and consistent design systems across all brand touchpoints.",
    TRUE, logos["dropbox"], 1, t),
  SampleDoc("Email Marketing", "Pitch", "Berlin, Germany",
    <<"Marketing">>,
    "Pitch is looking for a Customer Manager to join the marketing team and drive impactful campaigns across digital channels.",
    TRUE, logos["pitch"], 2, t),
  SampleDoc("Visual Designer", "Blendd", "Granada, Spain",
    <<"Design">>,
    "Blendd is looking for a Visual Designer to help teams design stunning brand identities and digital experiences.",
    TRUE, logos["blendd"], 3, t),
  SampleDoc("Product Designer", "Cloudpass", "Manchester, UK",
    <<"Marketing", "Design">>,
    "Cloudpass is looking for a Product Designer to help build the next generation of cloud security tools with intuitive, user-first design.",
    TRUE, logos["cloudpass"], 4, t),
  SampleDoc("Lead Designer", "Canva", "Ontario, Canada",
    <<"Design", "Business">>,
    "Canva is looking for a Lead Designer to develop and ship new design features across our creative platform used by millions worldwide.",
    TRUE, logos["canva"], 5, t),
  SampleDoc("Brand Strategist", "GoDaddy", "Marseille, France",
    <<"Marketing">>,
    "GoDaddy is looking for a Brand Strategist to join the team and shape the voice, positioning, and identity of our global brand.",
    TRUE, logos["godaddy"], 6, t),
  SampleDoc("Data Analyst", "Twitter", "San Diego, US",
    <<"Technology">>,
    "Twitter is looking for a Data Analyst to help teams derive actionable insights from complex datasets and shape product decisions.",
    TRUE, logos["twitter"], 7, t),
  SampleDoc("Social Media Assistant", "Nomad", "Paris, France",
    <<"Marketing", "Design">>,
    "Nomad is looking for a Social Media Assistant to manage and grow our online presence across Instagram, LinkedIn, and Twitter.",
    FALSE, logos["nomad"], 8, t),
  SampleDoc("Social Media Assistant", "Netlify", "Paris, France",
    <<"Marketing", "Design">>,
    "Netlify is looking for a Social Media Assistant to grow brand awareness and manage community engagement across all platforms.",
    FALSE, logos["netlify"], 9, t),
  SampleDoc("Brand Designer", "Dropbox", "San Fransisco, USA",
    <<"Marketing", "Design">>,
    "Dropbox is looking for a Brand Designer to craft compelling visual assets across all brand channels and campaigns.",
    FALSE, logos["dropbox"], 10, t),
  SampleDoc("Brand Designer", "Maze", "San Fransisco, USA",
    <<"Marketing", "Design">>,
    "Maze is looking for a Brand Designer to create stunning visual systems for our product and marketing materials.",
    FALSE, logos["maze"], 11, t),
  SampleDoc("Interactive Developer", "Terraform", "Hamburg, Germany",
    <<"Marketing", "Design">>,
    "Terraform is looking for an Interactive Developer to build immersive, high-performance web experiences for our platform.",
    FALSE, logos["terraform"], 12, t),
  SampleDoc("Interactive Developer", "Udacity", "Hamburg, Germany",
    <<"Marketing", "Design">>,
    "Udacity is looking for an Interactive Developer to build next-gen interactive learning experiences for our global student base.",
    FALSE, logos["udacity"], 13, t),
  SampleDoc("HR Manager", "Packer", "Lucern, Switzerland",
    <<"Marketing", "Management">>,
    "Packer is looking for an HR Manager to lead recruitment, onboarding, and employee engagement initiatives across the organisation.",
    FALSE, logos["packer"], 14, t),
  SampleDoc("HR Manager", "Webflow", "Lucern, Switzerland",
    <<"Marketing", "Management">>,
    "Webflow is looking for an HR Manager to scale our people operations and build a world-class team globally.",
    FALSE, logos["webflow"], 15, t)
  >>

\* ------------------------------------------------------------------- state
VARIABLES
  jobs,          \* the jobs collection: _id -> document
  applications,  \* the applications collection, in insertion order
  slots,         \* the two-step requests in flight
  resp,          \* the response emitted by the last step (NoResp when none)
  now,           \* the clock read by `new Date()` and `Date.now()`, in hours
  nCreated,      \* number of _ids generated by insertOne on jobs
  nSeeded,       \* number of insertMany calls that generated _ids
  inbox,         \* the request under study (input-driven specifications)
  created,       \* history: _id -> the job of every 201 of create-job
  deleted,       \* history: the _ids a deleteOne removed
  cleared,       \* history: the _ids a deleteMany removed
  seededOver     \* history: the created _ids older than some 200 of seed

vars == <<jobs, applications, slots, resp, now, nCreated, nSeeded, inbox,
          created, deleted, cleared, seededOver>>

hist == <<created, deleted, cleared, seededOver>>

\* ------------------------------------------------------------- identifiers
\* An id string that ObjectId.isValid rejects.
MalformedId == 0
\* No id at all (job_id absent from the body).
NoId == -1
\* ObjectId.isValid: the well-formed ids are the positive numbers.
IsValidId(id) == id > 0
\* insertMany of the s-th seed generates the ids SeedBase*s + 1 .. SeedBase*s + 16.
SeedBase == 100

\* The _id insertOne generates for the n-th created job: never used before.
NewJobId(n) == n

\* The _id insertMany generates for the k-th sample of the s-th seed.
SeedId(s, k) == SeedBase * s + k

\* The ids that requests name: the first created one, one that no job ever
\* gets, the first sample of the first seed, and a malformed one.
TargetIds == {1, MaxCreates + 1, SeedId(1, 1), MalformedId}

\* --------------------------------------------------------------- documents
NoDoc ==
  [title |-> JUndef, company |-> JUndef, location |-> JUndef, category |-> JUndef,
   categories |-> JUndef, type |-> JUndef, description |-> JUndef,
   featured |-> JUndef, logo |-> JUndef, created_at |-> 0]

NoApp ==
  [job_id |-> NoId, name |-> "", email |-> "", resume_link |-> "", cover_note |-> "",
   created_at |-> 0]

\* ---------------------------------------------------------------- requests
\* A create-job body.
Body(title, company, location, category, description, type, featured, logo) ==
  [title |-> title, company |-> company, location |-> location, category |-> category,
   description |-> description, type |-> type, featured |-> featured, logo |-> logo]

\* A submit-application body; job_id is an id, MalformedId or NoId.
Submission(job_id, name, email, resume_link, cover_note) ==
  [job_id |-> job_id, name |-> name, email |-> email, resume_link |-> resume_link,
   cover_note |-> cover_note]

\* The query string of list-jobs.
Params(keyword, location, category, featured, limit, sort) ==
  [keyword |-> keyword, location |-> location, category |-> category,
   featured |-> featured, limit |-> limit, sort |-> sort]

NoBody == Body(JUndef, JUndef, JUndef, JUndef, JUndef, JUndef, JUndef, JUndef)
NoSub == Submission(NoId, JUndef, JUndef, JUndef, JUndef)
NoParams == Params(JUndef, JUndef, JUndef, JUndef, JUndef, JUndef)
NoInbox == [body |-> NoBody, sub |-> NoSub, params |-> NoParams]

\* ---------------------------------------------------------------- responses
NoResp ==
  [op |-> "none", status |-> 0, id |-> NoId, doc |-> NoDoc, missing |-> <<>>,
   list |-> <<>>, total |-> 0,
   \* history of the request that is answered:
   storeFailed |-> FALSE,  \* a store operation of the request failed
   present |-> FALSE,      \* delete, submit: the id was in jobs when looked up
   again |-> FALSE,        \* delete: an earlier deleteOne had removed the id
   inserted |-> {},        \* seed: the ids its insertMany generated
   wiped |-> {}]           \* seed: the ids its deleteMany removed

Respond(op, status) == [NoResp EXCEPT !.op = op, !.status = status]

\* A slot: where its request stands, the application it is about to insert,
\* and as history whether findOne saw the job and what deleteMany removed.
IdleSlot == [pc |-> "idle", app |-> NoApp, found |-> FALSE, wiped |-> {}]

Init ==
  /\ jobs = <<>>
  /\ applications = <<>>
  /\ slots = [s \in 1..NumSlots |-> IdleSlot]
  /\ resp = NoResp
  /\ now = 0
  /\ nCreated = 0
  /\ nSeeded = 0
  /\ inbox = NoInbox
  /\ created = <<>>
  /\ deleted = {}
  /\ cleared = {}
  /\ seededOver = {}

\* ------------------------------------------------------- store operations
\* A store operation that fails throws and has no effect.
\* insertOne that stores the document although it reports a failure.
InsertOneThenThrow(coll, id, doc, fail) == coll @@ (id :> doc)
\* collection.insertOne(doc), generating id
InsertOne(coll, id, doc, fail) == IF fail THEN coll ELSE coll @@ (id :> doc)
\* applicationsCollection.insertOne(doc)
AppendOne(coll, doc, fail) == IF fail THEN coll ELSE Append(coll, doc)
\* deleteOne with the filter dropped: removes the first document there is.
DeleteOneFirst(coll, id) ==
  [i \in (DOMAIN coll) \ {k \in DOMAIN coll : \A j \in DOMAIN coll : k <= j} |-> coll[i]]
\* deleteOne that removes nothing.
DeleteOneNoop(coll, id) == coll
\* collection.deleteOne({_id})
DeleteOne(coll, id) == [i \in (DOMAIN coll) \ {id} |-> coll[i]]
\* deleteMany that removes nothing.
DeleteManyNone(coll) == coll
\* collection.deleteMany({})
DeleteMany(coll) == <<>>
\* findOne with the filter dropped: the first document there is, or null.
FindOneAny(coll, id) ==
  IF DOMAIN coll = {} THEN NoDoc
  ELSE coll[CHOOSE k \in DOMAIN coll : \A j \in DOMAIN coll : k <= j]
\* collection.findOne({_id}): the document, or null
FindOne(coll, id) == IF id \in DOMAIN coll THEN coll[id] ELSE NoDoc
\* collection.insertMany(docs), generating the ids of seed number n
InsertMany(coll, docs, n) ==
  coll @@ [id \in {SeedId(n, k) : k \in 1..Len(docs)} |-> docs[id - SeedId(n, 0)]]

\* ----------------------------------------------------- POST /api/jobs
RequiredFields == <<"title", "company", "location", "category", "description">>

\* The five `if (!f?.trim()) missing.push(f)` raise a TypeError on a value that
\* is neither nullish nor a string.
ValidationThrows(body) == \E i \in 1..5 : TrimThrows(body[RequiredFields[i]])

\* missing, in the order the fields are pushed.
RECURSIVE MissingFrom(_, _)
MissingFrom(body, i) ==
  IF i > 5 THEN <<>>
  ELSE (IF BlankAfterTrim(body[RequiredFields[i]]) THEN <<RequiredFields[i]>> ELSE <<>>)
       \o MissingFrom(body, i + 1)

Missing(body) == MissingFrom(body, 1)

\* newJob
NewJob(body, t) ==
  [title |-> JStr(trim(StrVal(body.title))),
   company |-> JStr(trim(StrVal(body.company))),
   location |-> JStr(trim(StrVal(body.location))),
   category |-> JStr(trim(StrVal(body.category))),
   categories |-> JUndef,
   description |-> JStr(trim(StrVal(body.description))),
   type |-> OrElse(body.type, JStr("Full Time")),
   featured |-> OrElse(body.featured, JBool(FALSE)),
   logo |-> OrElse(body.logo, JNull),
   created_at |-> t]

CreateJob(bodies) ==
  \E body \in bodies, fail \in BOOLEAN :
    LET id == NewJobId(nCreated + 1)
        job == NewJob(body, now)
    IN
    IF ValidationThrows(body) THEN
      /\ resp' = Respond("create", 500)
      /\ UNCHANGED <<jobs, applications, slots, now, nCreated, nSeeded, inbox, hist>>
    ELSE IF Missing(body) # <<>> THEN
      /\ resp' = [Respond("create", 400) EXCEPT !.missing = Missing(body)]
      /\ UNCHANGED <<jobs, applications, slots, now, nCreated, nSeeded, inbox, hist>>
    ELSE
      /\ nCreated < MaxCreates
      /\ jobs' = InsertOne(jobs, id, job, fail)
      /\ nCreated' = IF fail THEN nCreated ELSE nCreated + 1
      /\ created' = IF fail THEN created ELSE created @@ (id :> job)
      /\ resp' = IF fail THEN [Respond("create", 500) EXCEPT !.storeFailed = TRUE]
                 ELSE [Respond("create", 201) EXCEPT !.id = id, !.doc = job]
      /\ UNCHANGED <<applications, slots, now, nSeeded, inbox, deleted, cleared, seededOver>>

\* ----------------------------------------------------- GET /api/jobs/:id
GetJob ==
  \E id \in TargetIds, fail \in BOOLEAN :
    /\ resp' =
         IF ~IsValidId(id) THEN [Respond("get", 400) EXCEPT !.id = id]
         ELSE IF fail THEN [Respond("get", 500) EXCEPT !.id = id, !.storeFailed = TRUE]
         ELSE IF FindOne(jobs, id) = NoDoc THEN [Respond("get", 404) EXCEPT !.id = id]
         ELSE [Respond("get", 200) EXCEPT !.id = id, !.doc = FindOne(jobs, id)]
    /\ UNCHANGED <<jobs, applications, slots, now, nCreated, nSeeded, inbox, hist>>

\* -------------------------------------------------- DELETE /api/jobs/:id
DeleteJob ==
  \E id \in TargetIds, fail \in BOOLEAN :
    LET after == DeleteOne(jobs, id)
        deletedCount == Cardinality(DOMAIN jobs) - Cardinality(DOMAIN after)
    IN
    IF ~IsValidId(id) THEN
      /\ resp' = [Respond("delete", 400) EXCEPT !.id = id]
      /\ UNCHANGED <<jobs, applications, slots, now, nCreated, nSeeded, inbox, hist>>
    ELSE IF fail THEN
      /\ resp' = [Respond("delete", 500) EXCEPT !.id = id, !.storeFailed = TRUE]
      /\ UNCHANGED <<jobs, applications, slots, now, nCreated, nSeeded, inbox, hist>>
    ELSE
      /\ jobs' = after
      /\ deleted' = IF deletedCount = 0 THEN deleted ELSE deleted \cup {id}
      /\ resp' = [Respond("delete", IF deletedCount = 0 THEN 404 ELSE 200) EXCEPT
                     !.id = id, !.present = id \in DOMAIN jobs, !.again = id \in deleted]
      /\ UNCHANGED <<applications, slots, now, nCreated, nSeeded, inbox,
                     created, cleared, seededOver>>

\* ------------------------------------------------ POST /api/applications
SubmitFields == <<"name", "email", "resume_link", "cover_note">>

\* `!job_id || !name?.trim() || ...` is evaluated left to right and stops at
\* the first operand that is true or throws: the index of that operand among
\* the four trimmed fields, 0 when job_id is missing, 5 when none is.
FirstBad(body) ==
  IF body.job_id = NoId THEN 0
  ELSE LET bad == {i \in 1..4 : \/ TrimThrows(body[SubmitFields[i]])
                                \/ BlankAfterTrim(body[SubmitFields[i]])}
       IN IF bad = {} THEN 5 ELSE CHOOSE i \in bad : \A k \in bad : i <= k

\* emailRegex = /^[^\s@]+@[^\s@]+\.[^\s@]+$/ on the spelling cs.
EmailMatches(cs) ==
  \E at \in 2..Len(cs) :
    /\ cs[at] = "@"
    /\ \A i \in (1..Len(cs)) \ {at} : cs[i] # "@" /\ ~IsSpace(cs[i])
    /\ \E dot \in (at + 2)..(Len(cs) - 1) : cs[dot] = "."

\* emailRegex.test, tabulated over the strings of the model.
EmailTable == <<>> @@ [s \in DOMAIN Chars |-> EmailMatches(Chars[s])]

emailRegexTest(s) == EmailTable[s]

\* The schemes for which the URL parser requires a host.
SpecialSchemes == {<<"h","t","t","p">>, <<"h","t","t","p","s">>, <<"f","t","p">>,
                   <<"w","s">>, <<"w","s","s">>}

Letters == {Lower[k] : k \in 1..26}

\* The URL parser accepts the spelling cs (stripped of surrounding white
\* space, lower-cased as lc): it has a scheme (letters up to the first colon)
\* and, for a special scheme, a host after the slashes.
UrlAccepted(cs, lc) ==
  \E c \in 2..Len(cs) :
    /\ cs[c] = ":"
    /\ \A i \in 1..(c - 1) : lc[i] \in Letters
    /\ SubSeq(lc, 1, c - 1) \in SpecialSchemes
         => \E h \in (c + 1)..Len(cs) : cs[h] \notin {"/", "\\"}

\* `new URL(s)` does not throw, tabulated over the strings of the model.
UrlTable ==
  <<>> @@ [s \in DOMAIN Chars |-> UrlAccepted(Chars[trim(s)], LowerChars[trim(s)])]

UrlParses(s) == UrlTable[s]

\* The status the synchronous checks of the handler answer with, 0 when the
\* body passes them all.
SubmitRejects(body) ==
  LET bad == FirstBad(body)
  IN IF bad = 0 THEN 400
     ELSE IF bad <= 4 THEN (IF TrimThrows(body[SubmitFields[bad]]) THEN 500 ELSE 400)
     ELSE IF ~emailRegexTest(StrVal(body.email)) THEN 400
     ELSE IF ~UrlParses(StrVal(body.resume_link)) THEN 400
     ELSE IF ~IsValidId(body.job_id) THEN 400
     ELSE 0

\* The handler without its `if (!job)` check.
JobMissingNever(job) == FALSE
\* `if (!job) return 404`
JobMissing(job) == job = NoDoc

\* application
NewApplication(body, t) ==
  [job_id |-> body.job_id,
   name |-> trim(StrVal(body.name)),
   email |-> toLowerCase(trim(StrVal(body.email))),
   resume_link |-> trim(StrVal(body.resume_link)),
   cover_note |-> trim(StrVal(body.cover_note)),
   created_at |-> t]

\* The slot a new two-step request takes: the first idle one (0 when none).
FreeSlot ==
  LET idle == {s \in 1..NumSlots : slots[s].pc = "idle"}
  IN IF idle = {} THEN 0 ELSE CHOOSE s \in idle : \A k \in idle : s <= k

\* Number of submit requests between their findOne and their insertOne.
Submitting == Cardinality({s \in 1..NumSlots : slots[s].pc = "submit"})

\* The synchronous validation and `await jobsCollection.findOne(...)`.
SubmitFind(bodies) ==
  \E body \in bodies, fail \in BOOLEAN :
    LET s == FreeSlot
        status ==
          IF SubmitRejects(body) # 0 THEN SubmitRejects(body)
          ELSE IF fail THEN 500
          ELSE IF JobMissing(FindOne(jobs, body.job_id)) THEN 404
          ELSE 0
    IN
    /\ s # 0
    /\ IF status # 0 THEN
         /\ resp' = [Respond("submit", status) EXCEPT !.id = body.job_id,
                        !.storeFailed = (SubmitRejects(body) = 0 /\ fail),
                        !.present = body.job_id \in DOMAIN jobs]
         /\ UNCHANGED slots
       ELSE
         /\ Len(applications) + Submitting < MaxApps
         /\ slots' = [slots EXCEPT ![s] = [pc |-> "submit",
                                           app |-> NewApplication(body, now),
                                           found |-> body.job_id \in DOMAIN jobs,
                                           wiped |-> {}]]
         /\ resp' = NoResp
    /\ UNCHANGED <<jobs, applications, now, nCreated, nSeeded, inbox, hist>>

\* `await applicationsCollection.insertOne(application)` and the response.
\* History kept with the application: jobFound, whether findOne saw the job,
\* and jobLive, whether the job is in the collection at this moment.
SubmitInsert ==
  \E s \in 1..NumSlots, fail \in BOOLEAN :
    /\ slots[s].pc = "submit"
    /\ slots' = [slots EXCEPT ![s] = IdleSlot]
    /\ applications' = AppendOne(applications,
                          [doc |-> slots[s].app, jobFound |-> slots[s].found,
                           jobLive |-> slots[s].app.job_id \in DOMAIN jobs], fail)
    /\ resp' = IF fail THEN [Respond("submit", 500) EXCEPT !.id = slots[s].app.job_id,
                               !.storeFailed = TRUE, !.present = slots[s].found]
               ELSE [Respond("submit", 201) EXCEPT !.id = slots[s].app.job_id,
                                                   !.present = slots[s].found]
    /\ UNCHANGED <<jobs, now, nCreated, nSeeded, inbox, hist>>

\* ------------------------- GET /api/applications, /api/applications/:jobId
\* Both only read; total is the number of applications returned.
ListApplications ==
  \E id \in {NoId} \cup TargetIds, fail \in BOOLEAN :
    /\ resp' =
         IF id # NoId /\ ~IsValidId(id) THEN [Respond("applications", 400) EXCEPT !.id = id]
         ELSE IF fail THEN
           [Respond("applications", 500) EXCEPT !.id = id, !.storeFailed = TRUE]
         ELSE [Respond("applications", 200) EXCEPT !.id = id,
                 !.total = Cardinality({i \in 1..Len(applications) :
                                          id = NoId \/ applications[i].doc.job_id = id})]
    /\ UNCHANGED <<jobs, applications, slots, now, nCreated, nSeeded, inbox, hist>>

\* -------------------------------------------------------- POST /api/seed
\* The number of records of the sample set.
SampleCount == 16

\* Number of seed requests between their deleteMany and their insertMany.
Seeding == Cardinality({s \in 1..NumSlots : slots[s].pc = "seed"})

\* `await jobsCollection.deleteMany({})`
SeedDelete ==
  \E fail \in BOOLEAN :
    LET s == FreeSlot IN
    /\ s # 0
    /\ IF fail THEN
         /\ resp' = [Respond("seed", 500) EXCEPT !.storeFailed = TRUE]
         /\ UNCHANGED <<jobs, slots, cleared>>
       ELSE
         /\ nSeeded + Seeding < MaxSeeds
         /\ jobs' = DeleteMany(jobs)
         /\ cleared' = cleared \cup DOMAIN jobs
         /\ slots' = [slots EXCEPT ![s] = [pc |-> "seed", app |-> NoApp, found |-> FALSE,
                                           wiped |-> DOMAIN jobs]]
         /\ resp' = NoResp
    /\ UNCHANGED <<applications, now, nCreated, nSeeded, inbox, created, deleted, seededOver>>

\* The sample array is built, `await jobsCollection.insertMany(sampleJobs)`,
\* and the response.
SeedInsert ==
  \E s \in 1..NumSlots, fail \in BOOLEAN :
    /\ slots[s].pc = "seed"
    /\ slots' = [slots EXCEPT ![s] = IdleSlot]
    /\ IF fail THEN
         /\ resp' = [Respond("seed", 500) EXCEPT !.storeFailed = TRUE,
                        !.wiped = slots[s].wiped]
         /\ UNCHANGED <<jobs, nSeeded, seededOver>>
       ELSE
         /\ jobs' = InsertMany(jobs, sampleJobs(now), nSeeded + 1)
         /\ nSeeded' = nSeeded + 1
         /\ seededOver' = seededOver \cup DOMAIN created
         /\ resp' = [Respond("seed", 200) EXCEPT !.total = Len(sampleJobs(now)),
                        !.wiped = slots[s].wiped,
                        !.inserted = {SeedId(nSeeded + 1, k) : k \in 1..Len(sampleJobs(now))}]
    /\ UNCHANGED <<applications, now, nCreated, inbox, created, deleted, cleared>>

\* ----------------------------------------------------- GET /api/jobs
\* One condition of the filter: a field, an operator and a pattern.
Cond(field, op, pattern) == [field |-> field, op |-> op, pattern |-> pattern]

\* `const query = {}`: $or and $and are absent when empty, location and
\* featured when undefined.
EmptyQuery == [or |-> <<>>, and |-> <<>>, location |-> JUndef, featured |-> JUndef]

KeywordConds(keyword) ==
  <<Cond("title", "regex", keyword), Cond("company", "regex", keyword),
    Cond("description", "regex", keyword)>>

\* catConds
CategoryConds(category) ==
  <<Cond("category", "regex", category), Cond("categories", "elemMatch", category)>>

\* `if (keyword) query.$or = [...]`
WithKeyword(query, keyword) ==
  IF Truthy(keyword) THEN [query EXCEPT !.or = KeywordConds(StrVal(keyword))] ELSE query

\* `if (location) query.location = {$regex: location, $options: 'i'}`
WithLocation(query, location) ==
  IF Truthy(location) THEN [query EXCEPT !.location = location] ELSE query

\* The category conditions replace an $or that is already there.
WithCategoryOverride(query, category) ==
  IF ~Truthy(category) THEN query
  ELSE [query EXCEPT !.or = CategoryConds(StrVal(category))]

\* `if (category) { ... }`: the category conditions are and-ed with an $or
\* that is already there, and become the $or otherwise.
WithCategory(query, category) ==
  IF ~Truthy(category) THEN query
  ELSE IF Len(query.or) > 0 THEN
    [query EXCEPT !.and = <<query.or, CategoryConds(StrVal(category))>>, !.or = <<>>]
  ELSE [query EXCEPT !.or = CategoryConds(StrVal(category))]

\* `if (featured)`: any non-empty value asks for featured jobs.
WantsFeaturedTruthy(featured) == Truthy(featured)
\* `featured === 'true'`
WantsFeatured(featured) == featured = JStr("true")

\* `if (featured === 'true') query.featured = true`
WithFeatured(query, featured) ==
  IF WantsFeatured(featured) THEN [query EXCEPT !.featured = JBool(TRUE)] ELSE query

\* The filter the handler builds from the query string.
BuildQuery(p) ==
  WithFeatured(WithCategory(WithLocation(WithKeyword(EmptyQuery, p.keyword), p.location),
                            p.category), p.featured)

\* The spelling p occurs in the spelling t.
Contains(p, t) ==
  \E i \in 0..(Len(t) - Len(p)) : \A k \in 1..Len(p) : t[i + k] = p[k]

\* The patterns the query strings of the model carry; none has a regex
\* metacharacter, so $regex with $options 'i' is a case-insensitive search.
Patterns == {"des", "DEV", "spain", "mark"}

\* {$regex: pattern, $options: 'i'} against a string, tabulated.
RegexTable ==
  <<>> @@ [pat \in Patterns |->
            <<>> @@ [s \in DOMAIN Chars |-> Contains(LowerChars[pat], LowerChars[s])]]

RegexTest(pattern, s) == RegexTable[pattern][s]

\* A condition holds of a document: $regex matches a string field or an
\* element of an array field, $elemMatch an element of an array field.
Holds(doc, c) ==
  LET v == doc[c.field]
      some == \E i \in 1..Len(Elems(v)) : RegexTest(c.pattern, Elems(v)[i])
  IN CASE c.op = "regex" ->
            \/ TypeOf(v) = "string" /\ RegexTest(c.pattern, StrVal(v))
            \/ TypeOf(v) = "array" /\ some
       [] c.op = "elemMatch" -> TypeOf(v) = "array" /\ some

\* find(query): the document matches the filter.
Matches(doc, query) ==
  /\ Len(query.or) > 0 => \E i \in 1..Len(query.or) : Holds(doc, query.or[i])
  /\ \A g \in 1..Len(query.and) :
       \E i \in 1..Len(query.and[g]) : Holds(doc, query.and[g][i])
  /\ query.location # JUndef
       => Holds(doc, Cond("location", "regex", StrVal(query.location)))
  /\ query.featured # JUndef => doc.featured = query.featured

\* sort({created_at: -1}): newest first; equal dates in _id order.
RECURSIVE SortNewest(_, _)
SortNewest(coll, ids) ==
  IF ids = {} THEN <<>>
  ELSE LET first == CHOOSE i \in ids : \A k \in ids :
                      \/ coll[i].created_at > coll[k].created_at
                      \/ coll[i].created_at = coll[k].created_at /\ i <= k
       IN <<first>> \o SortNewest(coll, ids \ {first})

Digits == <<"0", "1", "2", "3", "4", "5", "6", "7", "8", "9">>
IsDigit(c) == \E d \in 1..10 : Digits[d] = c
DigitValue(c) == (CHOOSE d \in 1..10 : Digits[d] = c) - 1

\* The value of the digits of cs from position i on, after the value acc.
RECURSIVE DigitsFrom(_, _, _)
DigitsFrom(cs, i, acc) ==
  IF i > Len(cs) \/ ~IsDigit(cs[i]) THEN acc
  ELSE DigitsFrom(cs, i + 1, 10 * acc + DigitValue(cs[i]))

\* parseInt(s): leading white space, a sign, then the longest run of digits;
\* NaN when there is no digit.
parseInt(s) ==
  LET cs == Chars[s]
      rest == {i \in 1..Len(cs) : ~IsSpace(cs[i])}
      start == IF rest = {} THEN Len(cs) + 1 ELSE CHOOSE i \in rest : \A k \in rest : i <= k
      signed == start <= Len(cs) /\ cs[start] \in {"-", "+"}
      first == IF signed THEN start + 1 ELSE start
      value == DigitsFrom(cs, first, 0)
  IN IF first > Len(cs) \/ ~IsDigit(cs[first]) THEN [nan |-> TRUE, n |-> 0]
     ELSE [nan |-> FALSE, n |-> IF signed /\ cs[start] = "-" THEN 0 - value ELSE value]

\* `const limitNum = limit ? parseInt(limit) : 0`
LimitNum(limit) == IF Truthy(limit) THEN parseInt(StrVal(limit)) ELSE [nan |-> FALSE, n |-> 0]

\* cursor.limit(n): 0 is no limit, a negative n is the limit -n.
Limit(docs, n) ==
  LET m == IF n < 0 THEN 0 - n ELSE n
  IN IF n = 0 \/ m >= Len(docs) THEN docs ELSE SubSeq(docs, 1, m)

\* The handler; the response lists the _ids of the documents returned.  A NaN
\* limit reaches the store as it is: the store either rejects the command or
\* applies no limit.
ListJobs(params) ==
  \E p \in params, fail \in BOOLEAN, nanRejected \in BOOLEAN :
    LET query == BuildQuery(p)
        limitNum == LimitNum(p.limit)
        found == SortNewest(jobs, {id \in DOMAIN jobs : Matches(jobs[id], query)})
        result == Limit(found, limitNum.n)
    IN
    /\ resp' = IF fail \/ (limitNum.nan /\ nanRejected)
               THEN [Respond("list", 500) EXCEPT !.storeFailed = TRUE]
               ELSE [Respond("list", 200) EXCEPT !.list = result, !.total = Len(result)]
    /\ UNCHANGED <<jobs, applications, slots, now, nCreated, nSeeded, inbox, hist>>

\* ------------------------------------------------------------ request sets
Valid == Body(JStr(" Dev "), JStr("Acme"), JStr("Remote"), JStr("Design"), JStr("Builds"),
              JUndef, JUndef, JUndef)

\* The bodies of the interleaving specification: two valid ones and one that
\* lacks the title.
MainBodies ==
  {Valid, [Valid EXCEPT !.featured = JBool(TRUE), !.type = JStr("Remote")],
   [Valid EXCEPT !.title = JUndef]}

GoodSub(id) == Submission(id, JStr("Ann"), JStr("A@b.co"), JStr("http://cv.io"), JStr("Hi"))

MainSubs ==
  {GoodSub(id) : id \in {1, MaxCreates + 1, MalformedId}}
    \cup {[GoodSub(1) EXCEPT !.email = JStr("not-an-email")]}

\* ----------------------------------------------------------- specifications
\* The jobs API under every interleaving of its requests.
Next ==
  \/ CreateJob(MainBodies)
  \/ GetJob
  \/ DeleteJob
  \/ SeedDelete
  \/ SeedInsert

Spec == Init /\ [][Next]_vars

\* The applications API next to the operations that add and remove jobs.
NextApps ==
  \/ CreateJob({Valid})
  \/ DeleteJob
  \/ SubmitFind(MainSubs)
  \/ SubmitInsert
  \/ ListApplications
  \/ SeedDelete
  \/ SeedInsert

SpecApps == Init /\ [][NextApps]_vars

\* The create-job bodies of the input-driven specification: every required
\* field absent, null, blank, well-formed or not a string.
AllBodies ==
  {Body(t, c, l, g, d, JUndef, f, JUndef) :
     t \in {JUndef, JNull, JStr(" "), JStr(" Dev "), JNum("1")},
     c \in {JUndef, JStr(""), JStr("Acme"), JBool(TRUE)},
     l \in {JUndef, JStr(" "), JStr("Remote")},
     g \in {JUndef, JStr("Design"), JNum("0")},
     d \in {JUndef, JStr(""), JStr("Builds")},
     f \in {JUndef, JBool(TRUE), JBool(FALSE), JStr("true")}}

\* The submit-application bodies of the input-driven specification.
AllSubs ==
  {Submission(id, n, e, r, c) :
     id \in {NoId, MalformedId, 1, MaxCreates + 1},
     n \in {JUndef, JStr(" "), JStr("Ann"), JNum("1")},
     e \in {JUndef, JStr("A@b.co"), JStr(" a@b.co"), JStr("not-an-email"), JStr("a@b")},
     r \in {JUndef, JStr("http://cv.io"), JStr("cv")},
     c \in {JStr(""), JStr("Hi")}}

\* One request is drawn; a submission comes with the body that creates job 1.
InitInput ==
  /\ jobs = <<>>
  /\ applications = <<>>
  /\ slots = [s \in 1..NumSlots |-> IdleSlot]
  /\ resp = NoResp
  /\ now = 0
  /\ nCreated = 0
  /\ nSeeded = 0
  /\ inbox \in {[NoInbox EXCEPT !.body = b] : b \in AllBodies}
                \cup {[NoInbox EXCEPT !.body = Valid, !.sub = s] : s \in AllSubs}
  /\ created = <<>>
  /\ deleted = {}
  /\ cleared = {}
  /\ seededOver = {}

\* The drawn request is sent, any number of times, between deletions.
NextInput ==
  \/ CreateJob({inbox.body})
  \/ SubmitFind({inbox.sub})
  \/ SubmitInsert
  \/ DeleteJob

SpecInput == InitInput /\ [][NextInput]_vars

\* The bodies that fill the collection of the query specification: a job, the
\* same job featured by the string "true", and a featured one with title and
\* category swapped.
ListBodies ==
  {Valid, [Valid EXCEPT !.featured = JStr("true")],
   [Valid EXCEPT !.title = JStr("Design"), !.category = JStr("Dev"),
                 !.featured = JBool(TRUE)]}

\* The query strings of the query specification.
AllParams ==
  {Params(k, l, c, f, n, JStr("newest")) :
     k \in {JUndef, JStr("des"), JStr("DEV")},
     l \in {JUndef, JStr("spain")},
     c \in {JUndef, JStr("des"), JStr("mark")},
     f \in {JUndef, JStr("true"), JStr("false")},
     n \in {JUndef, JStr(""), JStr("0"), JStr("2"), JStr("-1"), JStr(" 2x"), JStr("abc")}}

\* The sequences of bodies that create-job may have inserted.
BodySeqs == UNION {[1..n -> ListBodies] : n \in 0..MaxCreates}

\* One query string is drawn, and the collection it is sent to: the one left
\* by a seed or none at time 0 and then the create-jobs of some bodies at a
\* time up to MaxTime.
InitList ==
  \E seeded \in BOOLEAN, bodies \in BodySeqs, t \in 0..MaxTime :
    /\ created = [i \in 1..Len(bodies) |-> NewJob(bodies[i], t)]
    /\ jobs = IF seeded THEN InsertMany(created, sampleJobs(0), 1) ELSE created
    /\ applications = <<>>
    /\ slots = [s \in 1..NumSlots |-> IdleSlot]
    /\ resp = NoResp
    /\ now = t
    /\ nCreated = Len(bodies)
    /\ nSeeded = IF seeded THEN 1 ELSE 0
    /\ inbox \in {[NoInbox EXCEPT !.params = p] : p \in AllParams}
    /\ deleted = {}
    /\ cleared = {}
    /\ seededOver = {}

\* The drawn query is sent.
NextList == ListJobs({inbox.params})

SpecList == InitList /\ [][NextList]_vars

\* ------------------------------------------------------------------ claims
\* C1 as stated: a job that create-job answered 201 for is in the collection,
\* unchanged, and get-job answers 200 with it, in every state reached before a
\* delete-job of its id answered 200 or a seed answered 200.
C1_UntilSeedSucceeded ==
  \A id \in (DOMAIN created) \ (deleted \cup seededOver) :
    /\ id \in DOMAIN jobs
    /\ jobs[id] = created[id]
    /\ (resp.op = "get" /\ resp.id = id /\ ~resp.storeFailed)
         => (resp.status = 200 /\ resp.doc = created[id])

\* C1 amended: a create-job with no missing field and no store failure answers
\* 201 with the id of the job it inserted; that job is in the collection,
\* unchanged, and get-job answers 200 with it, in every state reached before a
\* deleteOne of its id or the deleteMany of a seed has removed it.
C1_RetrievableUntilRemoved ==
  /\ resp.op = "create"
       => \/ /\ resp.status = 201
             /\ resp.id \in DOMAIN created
             /\ resp.doc = created[resp.id]
             /\ FindOne(jobs, resp.id) = resp.doc
          \/ resp.status = 400 /\ resp.missing # <<>>
          \/ resp.status = 500 /\ resp.storeFailed
  /\ \A id \in (DOMAIN created) \ (deleted \cup cleared) :
       /\ id \in DOMAIN jobs
       /\ jobs[id] = created[id]
       /\ (resp.op = "get" /\ resp.id = id /\ ~resp.storeFailed)
            => (resp.status = 200 /\ resp.doc = created[id])

\* A get-job of a created job answered 200 while a seed had already answered
\* 200 before the job was created.
C1_Witness ==
  /\ resp.op = "get" /\ resp.status = 200
  /\ resp.id \in DOMAIN created
  /\ resp.doc = created[resp.id]
  /\ nSeeded > 0

\* C4: a deleteOne that finds the id in the collection answers 200 and removes
\* it, and every later delete-job of an id that a delete-job removed answers
\* 404: the id never comes back, whatever ran in between.
C4_DeleteTwice ==
  /\ deleted \cap DOMAIN jobs = {}
  /\ (resp.op = "delete" /\ resp.status \in {200, 404})
       => /\ resp.present <=> resp.status = 200
          /\ resp.again => resp.status = 404
          /\ resp.id \notin DOMAIN jobs

\* The second delete-job of an id answered 404 after a create-job and a seed.
C4_Witness ==
  /\ resp.op = "delete" /\ resp.status = 404 /\ resp.again
  /\ nCreated > 0 /\ nSeeded > 0

\* C9 as stated: when a seed answers 200 the collection holds exactly the 16
\* jobs it inserted.
C9_ExactlySampleSet ==
  (resp.op = "seed" /\ resp.status = 200)
    => (DOMAIN jobs = resp.inserted /\ Cardinality(DOMAIN jobs) = SampleCount)

\* C9 amended: when a seed answers 200 the collection holds the 16 sample
\* jobs it inserted and none of the jobs its deleteMany found; the jobs that
\* create-job or another seed inserted in between are still there.
C9_SampleSetInserted ==
  (resp.op = "seed" /\ resp.status = 200)
    => /\ Cardinality(resp.inserted) = SampleCount
       /\ resp.inserted \subseteq DOMAIN jobs
       /\ \A k \in 1..SampleCount : jobs[SeedId(nSeeded, k)] = sampleJobs(now)[k]
       /\ resp.wiped \cap DOMAIN jobs = {}

\* A seed answered 200 after its deleteMany removed jobs, and the collection
\* holds more than its 16 jobs.
C9_Witness ==
  /\ resp.op = "seed" /\ resp.status = 200
  /\ resp.wiped # {}
  /\ Cardinality(DOMAIN jobs) > SampleCount

\* The required fields that the claim counts as missing: absent, null, or a
\* string that is empty after trimming.
ClaimedMissing(body) ==
  {f \in {RequiredFields[i] : i \in 1..5} :
     \/ TypeOf(body[f]) \in {"undefined", "null"}
     \/ TypeOf(body[f]) = "string" /\ TrimChars(Chars[StrVal(body[f])]) = <<>>}

\* C2: a create-job whose body lacks a required field (absent or empty after
\* trimming) answers 400, names exactly the missing fields, and inserts
\* nothing.
C2_MissingFieldsRejected ==
  (resp.op = "create" /\ ClaimedMissing(inbox.body) # {})
    => /\ resp.status = 400
       /\ {resp.missing[i] : i \in 1..Len(resp.missing)} = ClaimedMissing(inbox.body)
       /\ jobs = <<>>

\* The other fields of a submission pass the handler's validation and its job
\* reference is a well-formed identifier.
WellFormedSub(sub) ==
  /\ \A i \in 1..4 :
       /\ TypeOf(sub[SubmitFields[i]]) = "string"
       /\ TrimChars(Chars[StrVal(sub[SubmitFields[i]])]) # <<>>
  /\ EmailMatches(Chars[StrVal(sub.email)])
  /\ UrlParses(StrVal(sub.resume_link))
  /\ IsValidId(sub.job_id)

\* C3 as stated: a submit-application whose job reference, a well-formed
\* identifier, identifies no job in the collection answers 404 whatever its
\* other fields are (store failures aside).
C3_Always404 ==
  (resp.op = "submit" /\ IsValidId(resp.id) /\ ~resp.present /\ ~resp.storeFailed)
    => resp.status = 404

\* C3 amended: a submit-application whose job reference identifies no job in
\* the collection inserts nothing and schedules no insert; it answers 404
\* exactly when its other fields pass validation and the reference is a
\* well-formed identifier, and 400 or 500 otherwise (store failures aside).
C3_NotFoundAfterValidation ==
  [][(resp'.op = "submit" /\ ~resp'.present /\ ~resp'.storeFailed)
       => /\ applications' = applications
          /\ slots' = slots
          /\ resp'.status \in {400, 404, 500}
          /\ resp'.status = 404 <=> WellFormedSub(inbox.sub)]_vars

\* A well-formed submission for a job that a delete-job removed answered 404
\* after an earlier one for the same job was inserted.
C3_Witness ==
  /\ resp.op = "submit" /\ resp.status = 404 /\ ~resp.present
  /\ resp.id \in deleted
  /\ Len(applications) > 0

\* C5 as stated: every application referenced a job that was in the
\* collection at the moment the application was inserted.
C5_JobLiveAtInsert ==
  \A i \in 1..Len(applications) : applications[i].jobLive

\* C5 amended: every application referenced a job that was in the collection
\* when the handler looked it up (findOne), before the insert.
C5_JobFoundAtLookup ==
  /\ \A i \in 1..Len(applications) : applications[i].jobFound
  /\ \A s \in 1..NumSlots : slots[s].pc = "submit" => slots[s].found

\* An application was inserted for a job that was found at the lookup and
\* gone at the insert.
C5_Witness ==
  \E i \in 1..Len(applications) :
    applications[i].jobFound /\ ~applications[i].jobLive

Returned == {resp.list[i] : i \in 1..Len(resp.list)}

\* A string value contains the text, letter case aside.
TextContains(v, text) ==
  TypeOf(v) = "string" /\ Contains(LowerChars[text], LowerChars[StrVal(v)])

\* The keyword group: title, company or description contains the keyword.
KeywordGroup(doc, keyword) ==
  \/ TextContains(doc.title, keyword)
  \/ TextContains(doc.company, keyword)
  \/ TextContains(doc.description, keyword)

\* The category group: category contains the value or some element of
\* categories does.
CategoryGroup(doc, category) ==
  \/ TextContains(doc.category, category)
  \/ /\ TypeOf(doc.categories) = "array"
     /\ \E i \in 1..Len(Elems(doc.categories)) :
          TextContains(JStr(Elems(doc.categories)[i]), category)

\* The job satisfies every group the query string supplies.
SatisfiesAll(doc, p) ==
  /\ Truthy(p.keyword) => KeywordGroup(doc, StrVal(p.keyword))
  /\ Truthy(p.category) => CategoryGroup(doc, StrVal(p.category))
  /\ Truthy(p.location) => TextContains(doc.location, StrVal(p.location))
  /\ p.featured = JStr("true") => doc.featured = JBool(TRUE)

\* C6: list-jobs returns only jobs that satisfy the keyword group and the
\* category group when both are supplied, the one supplied otherwise, and the
\* location and featured conditions in addition; without a limit it returns
\* all of them.
C6_GroupsAnded ==
  (resp.op = "list" /\ resp.status = 200)
    => /\ \A id \in Returned : id \in DOMAIN jobs /\ SatisfiesAll(jobs[id], inbox.params)
       /\ ~Truthy(inbox.params.limit)
            => Returned = {id \in DOMAIN jobs : SatisfiesAll(jobs[id], inbox.params)}

\* A query with keyword and category returned jobs and left out a job that
\* satisfies the category group alone and one that satisfies the keyword
\* group alone.
C6_Witness ==
  /\ resp.op = "list" /\ resp.status = 200 /\ Returned # {}
  /\ Truthy(inbox.params.keyword) /\ Truthy(inbox.params.category)
  /\ \E id \in (DOMAIN jobs) \ Returned :
       /\ CategoryGroup(jobs[id], StrVal(inbox.params.category))
       /\ ~KeywordGroup(jobs[id], StrVal(inbox.params.keyword))
  /\ \E id \in (DOMAIN jobs) \ Returned :
       /\ KeywordGroup(jobs[id], StrVal(inbox.params.keyword))
       /\ ~CategoryGroup(jobs[id], StrVal(inbox.params.category))

\* The limit parameter spells a positive integer: digits only, not all zero.
SpellsPositiveInteger(limit) ==
  /\ TypeOf(limit) = "string"
  /\ Len(Chars[StrVal(limit)]) > 0
  /\ \A i \in 1..Len(Chars[StrVal(limit)]) : IsDigit(Chars[StrVal(limit)][i])
  /\ DigitsFrom(Chars[StrVal(limit)], 1, 0) > 0

\* The number of jobs that match the filters of the query string.
MatchCount(p) ==
  Cardinality({id \in DOMAIN jobs : Matches(jobs[id], BuildQuery(p))})

\* C7: list-jobs answers 200 with exactly min(n, matching) jobs when limit is
\* a positive integer n, and with all matching jobs for every other limit
\* (store failures aside).
C7_LimitCaps ==
  (resp.op = "list" /\ ~resp.storeFailed)
    => /\ resp.status = 200
       /\ resp.total = Len(resp.list)
       /\ LET m == MatchCount(inbox.params)
              n == DigitsFrom(Chars[StrVal(inbox.params.limit)], 1, 0)
          IN IF SpellsPositiveInteger(inbox.params.limit)
             THEN resp.total = IF n < m THEN n ELSE m
             ELSE resp.total = m

\* The jobs that satisfy the filters of the query string other than featured.
OtherFilters(p) ==
  {id \in DOMAIN jobs : Matches(jobs[id], BuildQuery([p EXCEPT !.featured = JUndef]))}

\* The jobs the claim has list-jobs select: with featured "true" those of the
\* other filters whose flag is true, with any other value all of them.
FeaturedSelection(p) ==
  IF p.featured = JStr("true")
  THEN {id \in OtherFilters(p) : jobs[id].featured = JBool(TRUE)}
  ELSE OtherFilters(p)

\* C8: list-jobs with featured "true" returns only jobs whose featured flag
\* is true, and every such job that satisfies the other filters unless the
\* limit cuts the list; with any other value of featured the flag plays no
\* part.
C8_FeaturedLiteral ==
  (resp.op = "list" /\ resp.status = 200)
    => /\ Returned \subseteq FeaturedSelection(inbox.params)
       /\ Returned # FeaturedSelection(inbox.params)
            => /\ LimitNum(inbox.params.limit).n # 0
               /\ resp.total \in {LimitNum(inbox.params.limit).n,
                                  0 - LimitNum(inbox.params.limit).n}

\* A query with featured "true" returned the jobs whose flag is true and left
\* out a job whose flag is false and one whose flag is the string "true".
C8_Witness ==
  /\ resp.op = "list" /\ resp.status = 200 /\ Returned # {}
  /\ inbox.params.featured = JStr("true")
  /\ Returned = FeaturedSelection(inbox.params)
  /\ \E id \in OtherFilters(inbox.params) \ Returned : jobs[id].featured = JBool(FALSE)
  /\ \E id \in OtherFilters(inbox.params) \ Returned : jobs[id].featured = JStr("true")

\* The filter of a list-jobs request with featured=true and nothing else.
FeaturedQuery == BuildQuery([NoParams EXCEPT !.featured = JStr("true")])

\* C11: every job in the collection has a boolean featured flag, false when
\* the create-job request gave none, and every job created by a request that
\* gave a featured value meant as true is matched by list-jobs with
\* featured=true.
C11_FeaturedIsBoolean ==
  \A id \in DOMAIN jobs :
    /\ TypeOf(jobs[id].featured) = "boolean"
    /\ (id \in DOMAIN created /\ inbox.body.featured = JUndef)
         => jobs[id].featured = JBool(FALSE)
    /\ (id \in DOMAIN created /\ Truthy(inbox.body.featured))
         => Matches(jobs[id], FeaturedQuery)

====
